---------------------------- MODULE Spec2Model ----------------------------
(***************************************************************************)
(* Model of rasa_sdk/executor.py: the CollectingDispatcher (the per-call   *)
(* output collector) and the ActionExecutor (registry of action handlers,  *)
(* package discovery, event validation and the run operation).             *)
(***************************************************************************)
EXTENDS Integers, Sequences, FiniteSets, TLC

VARIABLES
    actions,     \* ActionExecutor.actions: dict name -> handler
    result,      \* outcome of the last operation (return value or raised exception)
    invoked,     \* handlers called by the last operation, in call order
    logged,      \* log records (levels) emitted by the last operation
    messages,    \* CollectingDispatcher.messages of the dispatcher under test
    loaded,      \* modules beneath the package root that have been imported
    vin,         \* validate_events under test: its `events` argument
    vout,        \* validate_events under test: its outcome
    op           \* the last operation and its arguments

vars == <<actions, result, invoked, logged, messages, loaded, vin, vout, op>>

(***************************************************************************)
(* Python values.  Every value is a record of one shape so that values of  *)
(* different Python types can be compared and collected in sets:           *)
(*   t      the Python type ("none", "str", "int", "dict", "list",         *)
(*          "tuple", "obj")                                                *)
(*   s      the text of a str; for an object, type(e).__module__           *)
(*   n      the number of an int                                           *)
(*   d      the mapping of a dict; for an object, what as_dict() returns   *)
(*   items  the elements of a list or tuple                                *)
(***************************************************************************)
EmptyDict == [k \in {} |-> 0]

PyNone == [t |-> "none", s |-> "", n |-> 0, d |-> EmptyDict, items |-> <<>>]

PyStr(x) == [t |-> "str", s |-> x, n |-> 0, d |-> EmptyDict, items |-> <<>>]

PyInt(k) == [t |-> "int", s |-> "", n |-> k, d |-> EmptyDict, items |-> <<>>]

PyDict(m) == [t |-> "dict", s |-> "", n |-> 0, d |-> m, items |-> <<>>]

PyList(xs) == [t |-> "list", s |-> "", n |-> 0, d |-> EmptyDict, items |-> xs]

PyTuple(xs) == [t |-> "tuple", s |-> "", n |-> 0, d |-> EmptyDict, items |-> xs]

PyObj(module, asdict) == [t |-> "obj", s |-> module, n |-> 0, d |-> asdict, items |-> <<>>]

\* Python truth value testing, as used by `if x:` and `not x`.
Truthy(v) ==
    CASE v.t = "none" -> FALSE
      [] v.t = "str" -> v.s # ""
      [] v.t = "int" -> v.n # 0
      [] v.t = "dict" -> DOMAIN v.d # {}
      [] v.t \in {"list", "tuple"} -> Len(v.items) > 0
      [] OTHER -> TRUE

\* Whether `for e in v` can start; otherwise it raises TypeError.
Iterable(v) == v.t \in {"list", "tuple", "dict", "str"}

\* A set of strings as a sequence, in a fixed order.
RECURSIVE SetToSeq(_)
SetToSeq(S) ==
    IF S = {} THEN <<>>
    ELSE LET x == CHOOSE y \in S : TRUE IN <<x>> \o SetToSeq(S \ {x})

\* The elements `for e in v` visits: the items of a list or tuple, the keys
\* of a dict, the characters of a str (strs of the model have at most one).
Iter(v) ==
    CASE v.t \in {"list", "tuple"} -> v.items
      [] v.t = "dict" -> [i \in 1..Cardinality(DOMAIN v.d) |-> PyStr(SetToSeq(DOMAIN v.d)[i])]
      [] v.t = "str" -> IF v.s = "" THEN <<>> ELSE <<v>>
      [] OTHER -> <<>>

\* dict.get(key): the value under key, or None.
DictGet(m, key) == IF key \in DOMAIN m THEN m[key] ELSE PyNone

\* dict.get(key, default).
DictGetDefault(m, key, default) == IF key \in DOMAIN m THEN m[key] ELSE default

\* dict.update(other): key-wise merge, other's values winning.
DictUpdate(m, other) ==
    [k \in DOMAIN m \cup DOMAIN other |-> IF k \in DOMAIN other THEN other[k] ELSE m[k]]


(***************************************************************************)
(* Outcomes.  An operation either returns a value or raises an exception.  *)
(***************************************************************************)
NoResult == [kind |-> "init", exc |-> "", msg |-> "", value |-> PyNone]

Return(v) == [kind |-> "return", exc |-> "", msg |-> "", value |-> v]

Raise(e, m) == [kind |-> "raise", exc |-> e, msg |-> m, value |-> PyNone]

(***************************************************************************)
(* CollectingDispatcher.  `self` is the dispatcher's `messages` list, a    *)
(* sequence of dicts.  Each method yields [raised, messages]: whether the  *)
(* call raised TypeError while binding its arguments, and the list after   *)
(* the call.                                                               *)
(***************************************************************************)

\* CollectingDispatcher.__init__: a new, empty list.
CollectingDispatcher_init == <<>>

\* Python's binding of the keywords of a call `m(a1, .., ak, **extra)` to a
\* signature `def m(self, p1, .., pk, q=default, **kwargs)`: a keyword that
\* names a parameter already bound by position raises TypeError, a keyword
\* that names a parameter with a default binds to it, the rest is kwargs.
BindKeywords(positional, defaulted, extra) ==
    [raised |-> (DOMAIN extra \cap positional) # {},
     kwargs |-> [k \in (DOMAIN extra \ defaulted) |-> extra[k]]]

\* Mutant of AppendMessage: on a key collision the fixed field is kept.
AppendMessage_fixed_wins(self, message, bound) ==
    IF bound.raised
    THEN [raised |-> TRUE, messages |-> self]
    ELSE [raised |-> FALSE, messages |-> Append(self, DictUpdate(bound.kwargs, message))]

\* message.update(kwargs); self.messages.append(message)
AppendMessage(self, message, bound) ==
    IF bound.raised
    THEN [raised |-> TRUE, messages |-> self]
    ELSE [raised |-> FALSE, messages |-> Append(self, DictUpdate(message, bound.kwargs))]

utter_elements(self, elements, extra) ==
    AppendMessage(self,
                  ("text" :> PyNone) @@ ("elements" :> PyTuple(elements)),
                  BindKeywords({"self"}, {}, extra))

utter_message(self, text, extra) ==
    AppendMessage(self,
                  ("text" :> text),
                  BindKeywords({"self", "text"}, {}, extra))

utter_button_message(self, text, buttons, extra) ==
    AppendMessage(self,
                  ("text" :> text) @@ ("buttons" :> buttons),
                  BindKeywords({"self", "text", "buttons"}, {}, extra))

utter_attachment(self, attachment, extra) ==
    AppendMessage(self,
                  ("text" :> PyNone) @@ ("attachment" :> attachment),
                  BindKeywords({"self", "attachment"}, {}, extra))

utter_button_template(self, template, buttons, tracker, extra) ==
    AppendMessage(self,
                  ("template" :> template) @@ ("buttons" :> buttons),
                  BindKeywords({"self", "template", "buttons", "tracker"},
                               {"silent_fail"}, extra))

utter_template(self, template, tracker, extra) ==
    AppendMessage(self,
                  ("template" :> template),
                  BindKeywords({"self", "template", "tracker"}, {"silent_fail"}, extra))

utter_custom_json(self, json_message, extra) ==
    AppendMessage(self,
                  ("custom" :> json_message),
                  BindKeywords({"self", "json_message"}, {}, extra))

utter_image_url(self, image, extra) ==
    AppendMessage(self,
                  ("image" :> image),
                  BindKeywords({"self", "image"}, {}, extra))

\* A call of a dispatcher method, as data: the method and its arguments.
\* `a` and `b` are the positional arguments the method names (b is unused
\* by the methods that take one), `extra` the keyword arguments.
Invoke(self, call, tracker) ==
    CASE call.method = "utter_elements" -> utter_elements(self, <<call.a>>, call.extra)
      [] call.method = "utter_message" -> utter_message(self, call.a, call.extra)
      [] call.method = "utter_button_message" ->
             utter_button_message(self, call.a, call.b, call.extra)
      [] call.method = "utter_attachment" -> utter_attachment(self, call.a, call.extra)
      [] call.method = "utter_button_template" ->
             utter_button_template(self, call.a, call.b, tracker, call.extra)
      [] call.method = "utter_template" -> utter_template(self, call.a, tracker, call.extra)
      [] call.method = "utter_custom_json" -> utter_custom_json(self, call.a, call.extra)
      [] call.method = "utter_image_url" -> utter_image_url(self, call.a, call.extra)

(***************************************************************************)
(* ActionExecutor.validate_events                                          *)
(***************************************************************************)

\* Mutant of validate_event: every dict is accepted, with or without `event`.
validate_event_any_dict(e, action_name) ==
    IF e.t = "dict"
    THEN [validated |-> <<e>>, log |-> <<>>]
    ELSE IF e.t = "obj" /\ e.s = "rasa.core.events"
         THEN [validated |-> <<PyDict(e.d)>>, log |-> <<"warning">>]
         ELSE [validated |-> <<>>, log |-> <<"error">>]

\* One pass of the loop body: what the item contributes to `validated` and
\* what is logged for it.
validate_event(e, action_name) ==
    IF e.t = "dict"
    THEN IF ~Truthy(DictGet(e.d, "event"))
         THEN [validated |-> <<>>, log |-> <<"error">>]
         ELSE [validated |-> <<e>>, log |-> <<>>]
    ELSE IF e.t = "obj" /\ e.s = "rasa.core.events"
         THEN [validated |-> <<PyDict(e.d)>>, log |-> <<"warning">>]
         ELSE [validated |-> <<>>, log |-> <<"error">>]

RECURSIVE validate_loop(_, _, _)
validate_loop(es, action_name, acc) ==
    IF es = <<>> THEN acc
    ELSE LET one == validate_event(Head(es), action_name)
         IN validate_loop(Tail(es), action_name,
                          [validated |-> acc.validated \o one.validated,
                           log |-> acc.log \o one.log])

\* validate_events(events, action_name): `for e in events` raises TypeError
\* when events is not iterable; otherwise the validated list is returned.
validate_events(events, action_name) ==
    IF ~Iterable(events)
    THEN [raised |-> TRUE, validated |-> <<>>, log |-> <<>>]
    ELSE LET r == validate_loop(Iter(events), action_name,
                                [validated |-> <<>>, log |-> <<>>])
         IN [raised |-> FALSE, validated |-> r.validated, log |-> r.log]

\* _create_api_response(events, messages)
create_api_response(events, msgs) ==
    PyDict(("events" :> PyList(events)) @@
           ("responses" :> PyList([i \in 1..Len(msgs) |-> PyDict(msgs[i])])))

(***************************************************************************)
(* Inputs: event items, trackers, and the user's handlers.  A handler is   *)
(* user code: it is described by the parameters it declares, the calls it  *)
(* makes on the dispatcher it is given and the value it returns.  The      *)
(* handlers of the model return normally.                                  *)
(***************************************************************************)
SlotEvent ==
    PyDict(("event" :> PyStr("slot")) @@ ("name" :> PyStr("x")) @@ ("value" :> PyInt(1)))

FooRecord == PyDict("foo" :> PyStr("bar"))

NotARecord == PyStr("not-a-record")

EmptyKindEvent == PyDict(("event" :> PyStr("")) @@ ("name" :> PyStr("x")))

NoneKindEvent == PyDict("event" :> PyNone)

RasaEvent == PyObj("rasa.core.events", "event" :> PyStr("restart"))

OtherObject == PyObj("datetime", EmptyDict)

Trackers == {PyDict("sender_id" :> PyStr("u1")), PyDict("sender_id" :> PyStr("u2"))}

NoExtra == EmptyDict

Call(method, a, b, extra) == [method |-> method, a |-> a, b |-> b, extra |-> extra]

Handlers == {"greet", "quiet", "messy", "empty", "single", "scalar", "text", "two", "four"}

\* The parameters the handler declares (what inspect reports for it).
HandlerParams(f) ==
    CASE f = "two" -> <<"dispatcher", "tracker">>
      [] f = "four" -> <<"self", "dispatcher", "tracker", "domain">>
      [] OTHER -> <<"dispatcher", "tracker", "domain">>

\* The dispatcher calls the handler makes, in order.
HandlerCalls(f, tracker, domain) ==
    CASE f = "greet" -> <<Call("utter_message", tracker.d["sender_id"], PyNone, NoExtra)>>
      [] f = "messy" ->
             <<Call("utter_template", PyStr("utter_greet"), PyNone, NoExtra),
               Call("utter_message", tracker.d["sender_id"], PyNone,
                    "quick_replies" :> PyList(<<PyStr("yes")>>))>>
      [] f = "empty" -> <<Call("utter_image_url", PyStr("http://img"), PyNone, NoExtra)>>
      [] f = "scalar" -> <<Call("utter_message", PyStr("five"), PyNone, NoExtra)>>
      [] OTHER -> <<>>

\* The value the handler returns.
HandlerReturn(f, tracker, domain) ==
    CASE f = "greet" -> PyList(<<SlotEvent>>)
      [] f = "quiet" -> PyNone
      [] f = "messy" -> PyList(<<FooRecord, SlotEvent, NotARecord, RasaEvent>>)
      [] f = "empty" -> PyList(<<>>)
      [] f = "single" -> SlotEvent
      [] f = "scalar" -> PyInt(5)
      [] f = "text" -> PyStr("x")
      [] OTHER -> PyList(<<>>)

RECURSIVE RunCalls(_, _, _)
RunCalls(self, calls, tracker) ==
    IF calls = <<>> THEN [raised |-> FALSE, messages |-> self]
    ELSE LET r == Invoke(self, Head(calls), tracker)
         IN IF r.raised THEN r ELSE RunCalls(r.messages, Tail(calls), tracker)

\* action(dispatcher, tracker, domain): the handler runs against the
\* dispatcher it was given.
CallHandler(f, dispatcher, tracker, domain) ==
    LET r == RunCalls(dispatcher, HandlerCalls(f, tracker, domain), tracker)
    IN [raised |-> r.raised, messages |-> r.messages,
        value |-> HandlerReturn(f, tracker, domain)]

\* utils.arguments_of(f)
arguments_of(f) == HandlerParams(f)

\* Tracker.from_dict(tracker_json)
Tracker_from_dict(state) == PyObj("rasa_sdk.interfaces", state.d)

(***************************************************************************)
(* ActionExecutor: registration and run                                    *)
(***************************************************************************)
Names == {"", "greet"}

RequestNames == Names \cup {"unknown_x"}

\* Requests: next_action absent, None or a name; a tracker; domain absent or {}.
ActionCalls ==
    {DictUpdate(DictUpdate("tracker" :> t, na), dom) :
        t \in Trackers,
        na \in {EmptyDict, "next_action" :> PyNone}
                 \cup {"next_action" :> PyStr(n) : n \in RequestNames},
        dom \in {EmptyDict, "domain" :> PyDict(EmptyDict)}}

NoOp ==
    [name |-> "init", regname |-> "", f |-> "", old |-> "", call |-> EmptyDict,
     package |-> <<>>, broken |-> {}]

\* The handler a name is bound to, "" when the name is unbound (handlers
\* have non-empty identities).
Bound(acts, name) == IF name \in DOMAIN acts THEN acts[name] ELSE ""

\* Mutant of ArityAccepted: the bound of the arity check is off by one.
ArityAccepted_off_by_one(valid_keys) == ~(Len(valid_keys) < 2)

\* `len(valid_keys) < 3` raises; anything else is accepted.
ArityAccepted(valid_keys) == ~(Len(valid_keys) < 3)

\* Mutant of StoreAction: an existing entry is kept (dict.setdefault).
StoreAction_keep_first(acts, name, f) ==
    IF name \in DOMAIN acts THEN acts ELSE DictUpdate(acts, name :> f)

\* self.actions[name] = f
StoreAction(acts, name, f) == DictUpdate(acts, name :> f)

\* The body of register_function on a registry: whether it raised, and
\* the registry afterwards.
register(acts, name, f) ==
    LET valid_keys == arguments_of(f)
    IN IF ~ArityAccepted(valid_keys)
       THEN [raised |-> TRUE, actions |-> acts]
       ELSE [raised |-> FALSE, actions |-> StoreAction(acts, name, f)]

register_function(name, f) ==
    LET r == register(actions, name, f)
    IN /\ op' = [NoOp EXCEPT !.name = "register_function", !.regname = name, !.f = f,
                             !.old = Bound(actions, name)]
       /\ logged' = <<"info">>
       /\ invoked' = <<>>
       /\ result' = IF r.raised
                    THEN Raise("Exception", "You can only register functions that take 3 parameters")
                    ELSE Return(PyNone)
       /\ actions' = r.actions
       /\ UNCHANGED <<messages, loaded, vin, vout>>

\* Mutant of HasActionName: the test for a missing action name is dropped.
HasActionName_always(action_name) == TRUE

\* `if action_name:`
HasActionName(action_name) == Truthy(action_name)

run(action_call) ==
    LET action_name == DictGet(action_call, "next_action")
    IN /\ op' = [NoOp EXCEPT !.name = "run", !.call = action_call]
       /\ IF HasActionName(action_name)
          THEN IF action_name.s \notin DOMAIN actions
               THEN /\ result' = Raise("Exception", "No registered Action found")
                    /\ logged' = <<"debug">>
                    /\ invoked' = <<>>
                    /\ messages' = messages
               ELSE LET action == actions[action_name.s]
                        tracker_json == DictGet(action_call, "tracker")
                        domain == DictGetDefault(action_call, "domain", PyDict(EmptyDict))
                        tracker == Tracker_from_dict(tracker_json)
                        dispatcher == CollectingDispatcher_init
                        out == CallHandler(action, dispatcher, tracker, domain)
                        events == IF ~Truthy(out.value) THEN PyList(<<>>) ELSE out.value
                        v == validate_events(events, action_name)
                    IN /\ invoked' = <<[f |-> action, tracker |-> tracker, domain |-> domain]>>
                       /\ messages' = out.messages
                       /\ IF out.raised \/ v.raised
                          THEN /\ result' = Raise("TypeError", "")
                               /\ logged' = <<"debug">>
                          ELSE /\ result' = Return(create_api_response(v.validated, out.messages))
                               /\ logged' = <<"debug">> \o v.log \o <<"debug">>
          ELSE /\ result' = Return(PyNone)
               /\ logged' = <<"warning">>
               /\ invoked' = <<>>
               /\ messages' = messages
       /\ UNCHANGED <<actions, loaded, vin, vout>>

Init ==
    /\ actions = EmptyDict
    /\ result = NoResult
    /\ invoked = <<>>
    /\ logged = <<>>
    /\ messages = <<>>
    /\ loaded = {}
    /\ vin = PyNone
    /\ vout = [raised |-> FALSE, validated |-> <<>>, log |-> <<>>]
    /\ op = NoOp

Next ==
    \/ \E name \in Names, f \in Handlers : register_function(name, f)
    \/ \E action_call \in ActionCalls : run(action_call)

Spec == Init /\ [][Next]_vars

(***************************************************************************)
(* Properties of registration and run, checked under Spec.                 *)
(***************************************************************************)

\* The action name of the last request (None when the request has none).
LastName == DictGet(op.call, "next_action")

\* C1, as claimed: register_function rejects every handler that does not
\* accept exactly three parameters (fewer and also more), leaving the
\* mapping as it was, and accepts and inserts a handler of exactly three.
C1_RejectsUnlessExactlyThree ==
    [][op'.name = "register_function" =>
         IF Len(arguments_of(op'.f)) = 3
         THEN /\ result'.kind = "return"
              /\ Bound(actions', op'.regname) = op'.f
         ELSE /\ result'.kind = "raise"
              /\ actions' = actions]_vars

\* C1, amended: register_function rejects with an error every handler that
\* accepts fewer than three parameters, leaving the mapping exactly as it
\* was; a handler accepting three or more parameters is accepted and
\* inserted under the given name.
C1_RejectsFewerThanThree ==
    [][op'.name = "register_function" =>
         IF Len(arguments_of(op'.f)) < 3
         THEN /\ result'.kind = "raise"
              /\ result'.exc = "Exception"
              /\ actions' = actions
         ELSE /\ result'.kind = "return"
              /\ DOMAIN actions' = DOMAIN actions \cup {op'.regname}
              /\ actions'[op'.regname] = op'.f]_vars

\* A two-parameter handler has just been rejected by a registry that holds
\* a four-parameter handler under one name and a three-parameter one under
\* another.
C1_Witness ==
    /\ op.name = "register_function"
    /\ Len(arguments_of(op.f)) < 3
    /\ result.kind = "raise"
    /\ \E n \in DOMAIN actions : Len(arguments_of(actions[n])) > 3
    /\ \E n \in DOMAIN actions : Len(arguments_of(actions[n])) = 3

\* C2, as claimed: a run whose next_action names a registered handler
\* returns {events, responses}: responses are the messages the handler
\* emitted on a fresh collector during this invocation, in order, and
\* events are the validated form of what the handler returned.
C2_RunReturnsHandlerOutput ==
    (op.name = "run" /\ LastName.t = "str" /\ LastName.s \in DOMAIN actions) =>
        LET f == actions[LastName.s]
            tracker == Tracker_from_dict(op.call["tracker"])
            domain == DictGetDefault(op.call, "domain", PyDict(EmptyDict))
            returned == HandlerReturn(f, tracker, domain)
            emitted == RunCalls(<<>>, HandlerCalls(f, tracker, domain), tracker).messages
            events == validate_events(IF returned = PyNone THEN PyList(<<>>) ELSE returned,
                                      LastName).validated
        IN result = Return(create_api_response(events, emitted))

\* C3, as claimed: a run whose request carries an action name that is not
\* in the registry fails with the not-found error, invokes no handler and
\* leaves the registry unchanged.
C3_UnknownNameNotFound ==
    [][(op'.name = "run"
        /\ DictGet(op'.call, "next_action").t = "str"
        /\ DictGet(op'.call, "next_action").s \notin DOMAIN actions) =>
           /\ result' = Raise("Exception", "No registered Action found")
           /\ invoked' = <<>>
           /\ actions' = actions]_vars

\* C4: a run whose request has no next_action (the key is absent, or None)
\* logs a warning and returns no response object: nothing is raised, no
\* handler is invoked, no events are created and the registry is unchanged,
\* whatever is registered.
C4_NoActionNameNoResponse ==
    [][(op'.name = "run" /\ DictGet(op'.call, "next_action") = PyNone) =>
           /\ result' = Return(PyNone)
           /\ logged' = <<"warning">>
           /\ invoked' = <<>>
           /\ actions' = actions]_vars

\* A request without next_action has been run against a registry that
\* holds a handler under every name.
C4_Witness ==
    /\ op.name = "run"
    /\ "next_action" \notin DOMAIN op.call
    /\ result = Return(PyNone)
    /\ logged = <<"warning">>
    /\ DOMAIN actions = Names

\* C5, as claimed: no operation other than re-registering a name removes
\* or replaces its entry, and a run naming any registered name (the empty
\* string included) finds and invokes the handler bound to it.
C5_RegisteredStaysInvocable ==
    [][/\ \A n \in DOMAIN actions :
             /\ n \in DOMAIN actions'
             /\ \/ actions'[n] = actions[n]
                \/ op'.name = "register_function" /\ op'.regname = n
       /\ (op'.name = "run"
           /\ DictGet(op'.call, "next_action").t = "str"
           /\ DictGet(op'.call, "next_action").s \in DOMAIN actions) =>
              /\ Len(invoked') = 1
              /\ invoked'[1].f = actions[DictGet(op'.call, "next_action").s]]_vars

\* C6: a successful registration binds the name to the handler just
\* registered (last registration wins), adds no other name, leaves the
\* entries under other names untouched, and registering the handler a name
\* is already bound to leaves the registry as it was.
C6_LastRegistrationWins ==
    [][(op'.name = "register_function" /\ result'.kind = "return") =>
           /\ DOMAIN actions' = DOMAIN actions \cup {op'.regname}
           /\ actions'[op'.regname] = op'.f
           /\ \A n \in DOMAIN actions \ {op'.regname} : actions'[n] = actions[n]
           /\ (Bound(actions, op'.regname) = op'.f => actions' = actions)]_vars

\* A name bound to one handler has just been registered again with another
\* handler, while the other name is bound too.
C6_Witness ==
    /\ op.name = "register_function"
    /\ result.kind = "return"
    /\ op.old # ""
    /\ op.old # op.f
    /\ actions[op.regname] = op.f
    /\ DOMAIN actions = Names

\* C9, as claimed: whatever the invoked handler returned, the run completes
\* with a {events, responses} response, and a handler that returned nothing
\* or an empty sequence yields events = [].
C9_ValidationNeverFailsRun ==
    (op.name = "run" /\ invoked # <<>>) =>
        /\ result.kind = "return"
        /\ result.value.t = "dict"
        /\ DOMAIN result.value.d = {"events", "responses"}
        /\ (HandlerReturn(invoked[1].f, invoked[1].tracker, invoked[1].domain)
                \in {PyNone, PyList(<<>>)}
              => result.value.d["events"] = PyList(<<>>))

(***************************************************************************)
(* The CollectingDispatcher on its own: one dispatcher, its methods called *)
(* with arguments and keyword arguments drawn from small sets.             *)
(***************************************************************************)
MaxMessages == 2

Override == PyStr("override")

Buttons == PyList(<<PyDict(("title" :> PyStr("ok")) @@ ("payload" :> PyStr("/ok")))>>)

ExtraKeys == {"text", "custom", "template", "silent_fail", "quick_replies"}

\* The keyword arguments of a call: none, or one of the keys.
Extras == {NoExtra} \cup {k :> Override : k \in ExtraKeys}

Methods ==
    {"utter_elements", "utter_message", "utter_button_message", "utter_attachment",
     "utter_button_template", "utter_template", "utter_custom_json", "utter_image_url"}

Hello == PyStr("hello")

\* The tracker handed to the template methods (they do not use it).
SomeTracker == Tracker_from_dict(CHOOSE t \in Trackers : TRUE)

\* The effect of one method call on the dispatcher under test: `call` is
\* the call as data, `r` what the method yields on `messages`.
Called(call, r) ==
    /\ Len(messages) < MaxMessages
    /\ messages' = r.messages
    /\ result' = IF r.raised THEN Raise("TypeError", "got multiple values for argument")
                             ELSE Return(PyNone)
    /\ op' = [NoOp EXCEPT !.name = call.method, !.call = call]
    /\ UNCHANGED <<actions, invoked, logged, loaded, vin, vout>>

\* CollectingDispatcher(): a new dispatcher replaces the one under test.
NewDispatcher ==
    /\ messages' = CollectingDispatcher_init
    /\ result' = Return(PyNone)
    /\ op' = [NoOp EXCEPT !.name = "CollectingDispatcher"]
    /\ UNCHANGED <<actions, invoked, logged, loaded, vin, vout>>

Call_utter_elements ==
    \E extra \in Extras :
        Called(Call("utter_elements", Hello, Buttons, extra),
               utter_elements(messages, <<Hello>>, extra))

Call_utter_message ==
    \E extra \in Extras :
        Called(Call("utter_message", Hello, Buttons, extra),
               utter_message(messages, Hello, extra))

Call_utter_button_message ==
    \E extra \in Extras :
        Called(Call("utter_button_message", Hello, Buttons, extra),
               utter_button_message(messages, Hello, Buttons, extra))

Call_utter_attachment ==
    \E extra \in Extras :
        Called(Call("utter_attachment", Hello, Buttons, extra),
               utter_attachment(messages, Hello, extra))

Call_utter_button_template ==
    \E extra \in Extras :
        Called(Call("utter_button_template", Hello, Buttons, extra),
               utter_button_template(messages, Hello, Buttons, SomeTracker, extra))

Call_utter_template ==
    \E extra \in Extras :
        Called(Call("utter_template", Hello, Buttons, extra),
               utter_template(messages, Hello, SomeTracker, extra))

Call_utter_custom_json ==
    \E extra \in Extras :
        Called(Call("utter_custom_json", Hello, Buttons, extra),
               utter_custom_json(messages, Hello, extra))

Call_utter_image_url ==
    \E extra \in Extras :
        Called(Call("utter_image_url", Hello, Buttons, extra),
               utter_image_url(messages, Hello, extra))

NextDispatcher ==
    \/ NewDispatcher
    \/ Call_utter_elements
    \/ Call_utter_message
    \/ Call_utter_button_message
    \/ Call_utter_attachment
    \/ Call_utter_button_template
    \/ Call_utter_template
    \/ Call_utter_custom_json
    \/ Call_utter_image_url

SpecDispatcher == Init /\ [][NextDispatcher]_vars

\* The fixed fields of each constructor, as the table of constructors
\* gives them.
FixedFields(call) ==
    CASE call.method = "utter_message" -> ("text" :> call.a)
      [] call.method = "utter_elements" ->
             ("text" :> PyNone) @@ ("elements" :> PyTuple(<<call.a>>))
      [] call.method = "utter_button_message" -> ("text" :> call.a) @@ ("buttons" :> call.b)
      [] call.method = "utter_attachment" -> ("text" :> PyNone) @@ ("attachment" :> call.a)
      [] call.method = "utter_template" -> ("template" :> call.a)
      [] call.method = "utter_button_template" ->
             ("template" :> call.a) @@ ("buttons" :> call.b)
      [] call.method = "utter_custom_json" -> ("custom" :> call.a)
      [] call.method = "utter_image_url" -> ("image" :> call.a)

\* The names of the parameters each constructor declares besides **kwargs.
DeclaredParams(method) ==
    CASE method = "utter_message" -> {"self", "text"}
      [] method = "utter_elements" -> {"self"}
      [] method = "utter_button_message" -> {"self", "text", "buttons"}
      [] method = "utter_attachment" -> {"self", "attachment"}
      [] method = "utter_template" -> {"self", "template", "tracker", "silent_fail"}
      [] method = "utter_button_template" ->
             {"self", "template", "buttons", "tracker", "silent_fail"}
      [] method = "utter_custom_json" -> {"self", "json_message"}
      [] method = "utter_image_url" -> {"self", "image"}

\* C7, as claimed: every constructor call appends exactly one message, the
\* fixed fields merged key-wise with the extra fields, the extra field
\* winning on a collision, and leaves the earlier messages in place.
C7_AppendsMergedMessage ==
    [][op'.name \in Methods =>
         messages' = Append(messages, DictUpdate(FixedFields(op'.call), op'.call.extra))]_vars

\* C7, amended: a constructor call none of whose extra fields is named like
\* a declared parameter of the constructor appends exactly one message,
\* the fixed fields merged key-wise with the extra fields, an extra field
\* overwriting a fixed field of the same key, and leaves the earlier
\* messages in place.
C7_AppendsMergedUnlessParameter ==
    [][(op'.name \in Methods
        /\ DOMAIN op'.call.extra \cap DeclaredParams(op'.name) = {}) =>
           /\ result' = Return(PyNone)
           /\ messages' = Append(messages,
                                 DictUpdate(FixedFields(op'.call), op'.call.extra))]_vars

\* utter_elements was called with an extra field `text` on a dispatcher
\* that held a message: two messages are held and the extra field has
\* overwritten the fixed `text`.
C7_Witness ==
    /\ op.name = "utter_elements"
    /\ "text" \in DOMAIN op.call.extra
    /\ Len(messages) = 2
    /\ messages[2]["text"] = Override
    /\ result = Return(PyNone)

(***************************************************************************)
(* validate_events on its own, applied to lists of items.                  *)
(***************************************************************************)
MaxEvents == 3

Items ==
    {SlotEvent, FooRecord, NotARecord, EmptyKindEvent, NoneKindEvent, RasaEvent,
     OtherObject, PyInt(7)}

EventLists == UNION {[1..n -> Items] : n \in 0..MaxEvents}

\* The state before validate_events is applied: `vin` holds its argument.
InitValidate ==
    /\ actions = EmptyDict
    /\ result = NoResult
    /\ invoked = <<>>
    /\ logged = <<>>
    /\ messages = <<>>
    /\ loaded = {}
    /\ vin \in {PyList(es) : es \in EventLists}
    /\ vout = [raised |-> FALSE, validated |-> <<>>, log |-> <<>>]
    /\ op = NoOp

\* validate_events(vin, "greet")
Validate ==
    /\ op.name = "init"
    /\ vout' = validate_events(vin, PyStr("greet"))
    /\ logged' = vout'.log
    /\ result' = IF vout'.raised THEN Raise("TypeError", "")
                                 ELSE Return(PyList(vout'.validated))
    /\ op' = [NoOp EXCEPT !.name = "validate_events"]
    /\ UNCHANGED <<actions, invoked, messages, loaded, vin>>

NextValidate == Validate

SpecValidate == InitValidate /\ [][NextValidate]_vars

\* An item of the host framework's event family.
IsHostEvent(e) == e.t = "obj" /\ e.s = "rasa.core.events"

\* The record an accepted item is returned as.
AsRecord(e) == IF IsHostEvent(e) THEN PyDict(e.d) ELSE e

\* The accepted items of `es` in their original order, each as its record.
Filtered(es, Accept(_)) ==
    LET kept == SelectSeq(es, Accept)
    IN [i \in 1..Len(kept) |-> AsRecord(kept[i])]

\* A record that carries the field `event`, whatever its value.
CarriesEvent(e) == (e.t = "dict" /\ "event" \in DOMAIN e.d) \/ IsHostEvent(e)

\* A record whose field `event` holds a non-empty value.
CarriesKind(e) ==
    \/ /\ e.t = "dict"
       /\ "event" \in DOMAIN e.d
       /\ e.d["event"] \notin {PyNone, PyStr(""), PyInt(0), PyList(<<>>), PyDict(EmptyDict)}
    \/ IsHostEvent(e)

\* C8, as claimed: validate_events returns, in order, exactly the accepted
\* items: a record is accepted if and only if it carries the field `event`,
\* whatever the field's value; a host-framework event is accepted as its
\* record; everything else is dropped.
C8_AcceptsWheneverEventPresent ==
    op.name = "validate_events" =>
        /\ ~vout.raised
        /\ vout.validated = Filtered(vin.items, CarriesEvent)

\* C8, amended: validate_events returns, in order, exactly the accepted
\* items: a record is accepted if and only if it carries the field `event`
\* with a non-empty value (not None, not "", not 0); a host-framework event
\* is accepted as its record; everything else is dropped; nothing accepted
\* is altered, duplicated or reordered.
C8_AcceptsWhenEventNonEmpty ==
    op.name = "validate_events" =>
        /\ ~vout.raised
        /\ vout.validated = Filtered(vin.items, CarriesKind)

\* A list holding a record with an empty `event`, a host-framework event
\* and a well-formed record has been validated: the last two are returned,
\* in that order, with one diagnostic and one warning.
C8_Witness ==
    /\ op.name = "validate_events"
    /\ vin.items = <<EmptyKindEvent, RasaEvent, SlotEvent>>
    /\ vout.validated = <<PyDict(RasaEvent.d), SlotEvent>>
    /\ logged = <<"error", "warning">>

(***************************************************************************)
(* register_package.  A module name is the sequence of its dotted          *)
(* components.  The file system holds the package `actions`:               *)
(*     actions/__init__.py, actions/a.py, actions/c.py,                    *)
(*     actions/sub/__init__.py, actions/sub/b.py                           *)
(* and each call is given the set of modules whose import fails.           *)
(***************************************************************************)
Root == <<"actions">>

Modules ==
    {Root, <<"actions", "a">>, <<"actions", "c">>, <<"actions", "sub">>,
     <<"actions", "sub", "b">>}

\* Whether the module has a __path__ (is a package).
HasPath(m) == m \in {Root, <<"actions", "sub">>}

\* pkgutil.walk_packages(package.__path__): the (name, is_pkg) entries of
\* the package's directory, sorted by name.
walk_packages(package) ==
    CASE package = Root ->
             <<[name |-> "a", is_pkg |-> FALSE], [name |-> "c", is_pkg |-> FALSE],
               [name |-> "sub", is_pkg |-> TRUE]>>
      [] package = <<"actions", "sub">> -> <<[name |-> "b", is_pkg |-> FALSE]>>
      [] OTHER -> <<>>

\* The Action subclasses each module defines: the class, what name() of an
\* instance returns, and whether the class's own Meta says abstract.
ClassesOf(m) ==
    CASE m = <<"actions", "a">> ->
             {[cls |-> "ActionA", module |-> m, name |-> "action_a", abstract |-> FALSE]}
      [] m = <<"actions", "c">> ->
             {[cls |-> "ActionC", module |-> m, name |-> "action_c", abstract |-> FALSE],
              [cls |-> "BaseAction", module |-> m, name |-> "base", abstract |-> TRUE]}
      [] m = <<"actions", "sub", "b">> ->
             {[cls |-> "ActionB", module |-> m, name |-> "action_b", abstract |-> FALSE]}
      [] OTHER -> {}

\* The Action subclass the SDK itself defines; its module is always loaded.
SdkClasses ==
    {[cls |-> "FormAction", module |-> <<"rasa_sdk", "forms">>, name |-> "form",
      abstract |-> FALSE]}

\* utils.all_subclasses(Action): the subclasses defined by loaded modules.
all_subclasses(ld) == SdkClasses \cup UNION {ClassesOf(m) : m \in ld}

\* module.startswith(prefix + ".")
InNamespace(module, prefix) == Len(module) > 1 /\ module[1] = prefix

\* importlib.import_module(m): the parent packages are imported first; a
\* module already loaded is not imported again; a missing or broken module
\* raises ImportError.
RECURSIVE import_module(_, _, _)
import_module(m, ld, broken) ==
    IF m \in ld THEN [raised |-> FALSE, loaded |-> ld]
    ELSE LET up == IF Len(m) > 1
                   THEN import_module(SubSeq(m, 1, Len(m) - 1), ld, broken)
                   ELSE [raised |-> FALSE, loaded |-> ld]
         IN IF up.raised \/ m \notin Modules \/ m \in broken
            THEN [raised |-> TRUE, loaded |-> up.loaded]
            ELSE [raised |-> FALSE, loaded |-> up.loaded \cup {m}]

\* _import_submodules(package): an ImportError leaves the loop and the
\* function at once.
RECURSIVE import_submodules(_, _, _)
RECURSIVE import_entries(_, _, _, _)
import_submodules(package, ld, broken) ==
    LET r == import_module(package, ld, broken)
    IN IF r.raised THEN r
       ELSE IF ~HasPath(package) THEN r
       ELSE import_entries(package, walk_packages(package), r.loaded, broken)

import_entries(package, entries, ld, broken) ==
    IF entries = <<>> THEN [raised |-> FALSE, loaded |-> ld]
    ELSE LET full_name == Append(package, Head(entries).name)
             r == import_module(full_name, ld, broken)
         IN IF r.raised THEN r
            ELSE IF Head(entries).is_pkg
                 THEN LET sub == import_submodules(full_name, r.loaded, broken)
                      IN IF sub.raised THEN sub
                         ELSE import_entries(package, Tail(entries), sub.loaded, broken)
                 ELSE import_entries(package, Tail(entries), r.loaded, broken)

\* register_action(action) for a class: a class of the namespace `rasa` is
\* skipped, any other is instantiated and its run method registered under
\* its name.
register_action(acts, class) ==
    IF InNamespace(class.module, "rasa")
    THEN [raised |-> FALSE, actions |-> acts]
    ELSE register(acts, class.name, class.cls)

\* The loop of register_package over the classes still to be visited.
RECURSIVE register_classes(_, _)
register_classes(acts, classes) ==
    IF classes = {} THEN [raised |-> FALSE, actions |-> acts]
    ELSE LET action == CHOOSE c \in classes : TRUE
             r == IF /\ ~InNamespace(action.module, "rasa_core")
                     /\ ~InNamespace(action.module, "rasa")
                     /\ ~InNamespace(action.module, "rasa_sdk")
                     /\ ~InNamespace(action.module, "rasa_core_sdk")
                     /\ ~action.abstract
                  THEN register_action(acts, action)
                  ELSE [raised |-> FALSE, actions |-> acts]
         IN IF r.raised THEN r ELSE register_classes(r.actions, classes \ {action})

Packages == {Root, <<"actions", "sub">>, <<"actions", "a">>, <<"missing">>}

register_package(package, broken) ==
    LET imp == import_submodules(package, loaded, broken)
        reg == register_classes(actions, all_subclasses(imp.loaded))
    IN /\ op' = [NoOp EXCEPT !.name = "register_package", !.package = package,
                             !.broken = broken \ loaded]
       /\ loaded' = imp.loaded
       /\ logged' = IF imp.raised THEN <<"error">> ELSE <<>>
       /\ actions' = reg.actions
       /\ result' = IF reg.raised
                    THEN Raise("Exception", "You can only register functions that take 3 parameters")
                    ELSE Return(PyNone)
       /\ UNCHANGED <<invoked, messages, vin, vout>>

NextPackage ==
    \E package \in Packages, broken \in SUBSET Modules : register_package(package, broken)

SpecPackage == Init /\ [][NextPackage]_vars

\* The classes of a module that discovery is to register.
Discoverable(m) == {c \in ClassesOf(m) : ~c.abstract}

\* C10, as claimed: when the import of one module beneath the root fails
\* during register_package, the failure is logged, every other module
\* beneath the root is imported all the same, and every concrete Action
\* class those modules define is registered under its name.
C10_ImportFailureDoesNotAbortScan ==
    (op.name = "register_package" /\ op.package = Root /\ Cardinality(op.broken) = 1) =>
        /\ logged = <<"error">>
        /\ \A m \in Modules \ op.broken :
              (\A i \in 1..Len(m) : SubSeq(m, 1, i) \notin op.broken) =>
                  /\ m \in loaded
                  /\ \A c \in Discoverable(m) : Bound(actions, c.name) = c.cls

=============================================================================
